---- MODULE Spec2Model ----
(***************************************************************************)
(* The consumer-group engine of the broker (ConsumerGroup.register,        *)
(* consumeLoop, shouldRedeliver, removeConsumer, getReceiver, Consume) on  *)
(* one (topic, partition, channel, group), together with the partition    *)
(* log it reads and the mark store it writes.                              *)
(*                                                                         *)
(* Offsets are the positions 1..Len(log) of the partition log; 0 is the    *)
(* zero offset (no mark yet) and also stands for a nil message pointer.    *)
(* Time is counted in seconds.                                             *)
(***************************************************************************)
EXTENDS Integers, Sequences, FiniteSets, TLC

VARIABLES
    now,        \* wall clock, seconds
    log,        \* partition log of (c.topic, c.partition): Seq of messages
    marks,      \* mark store of the group: offset -> MarkState
    receivers,  \* c.receivers: Seq of receiver ids (guarded by c.mu)
    rcv,        \* the receiver objects ever made by register: id -> record
    callers,    \* goroutines calling Consume: caller -> position in register
    loops,      \* the consumeLoop goroutines ever started: Seq of loop records
    crashed,    \* "" while the process runs, else the panic that ended it
    lim,        \* the bounds of the run, fixed by the initial state
    pr,         \* Broker.Produce calls on the cluster's nodes (see below)
    rd          \* one evaluation of shouldRedeliver: its arguments and result

vars == <<now, log, marks, receivers, rcv, callers, loops, crashed, lim, pr, rd>>

-----------------------------------------------------------------------------
(* Bounds of the model *)

NumMsgs == 2        \* messages clients produce on the group's channel
NumCallers == 2     \* goroutines that call Consume concurrently
MaxReceivers == 2   \* receiver objects register may create
MaxLoops == 2       \* consumeLoop goroutines that may be started
MaxTicks == 1       \* times the clock advances
TickStep == 11      \* seconds the clock advances by
CommitPeriod == 2   \* stands for the 10000 of `i%10000 == 0`, scaled to be reachable
DeepLoops == 5      \* loops of the run in which no consumer detaches or acknowledges
DeepTicks == 4      \* times the clock advances in that run
WindowMsgs == 3     \* messages of the run with a three-message recovery window
WindowLoops == 3    \* loops of that run
MaxCalls == 2       \* Produce calls clients issue on the cluster
MaxHops == 2        \* times one Produce call is forwarded
MaxCount == 3       \* largest DeliveryCount shouldRedeliver is evaluated on
MaxProducedAt == 2  \* latest ProducedAt shouldRedeliver is evaluated on

(* Program constants *)

RedeliveryTimeout == 10
MaxRedeliveryCount == 5

Names == {"c1", "c2"}
Callers == 1..NumCallers
MainChannel == "main"
DeathLetterChannel == "DeathLetter"

-----------------------------------------------------------------------------
(* Generic helpers *)

Max(S) == CHOOSE x \in S : \A y \in S : y <= x
Min(S) == CHOOSE x \in S : \A y \in S : x <= y
Range(s) == {s[k] : k \in DOMAIN s}
RemoveAt(s, k) == SubSeq(s, 1, k - 1) \o SubSeq(s, k + 1, Len(s))

-----------------------------------------------------------------------------
(* Mark store *)

Kinds == {"Unknown", "NotAcknowledged", "Consumed", "Acknowledged", "Commited"}

KindRank(k) ==
    CASE k = "Unknown" -> 0
      [] k = "NotAcknowledged" -> 1
      [] k = "Consumed" -> 2
      [] k = "Acknowledged" -> 3
      [] k = "Commited" -> 4

UnknownState == [Kind |-> "Unknown", DeliveryCount |-> 0]

\* the state of an offset that has no record is synthesized as Unknown
GetMarkState(ms, o) == IF o \in DOMAIN ms THEN ms[o] ELSE UnknownState

\* a mark message is kept under (mark key, offset || kind): the record of the
\* highest kind is the one read back; an equal kind overwrites
MarkWrite(ms, o, st) ==
    IF KindRank(st.Kind) >= KindRank(GetMarkState(ms, o).Kind)
    THEN [p \in DOMAIN ms \cup {o} |-> IF p = o THEN st ELSE ms[p]]
    ELSE ms

Mark(ms, o, st) == MarkWrite(ms, o, st)
MarkConsumed(ms, o) == MarkWrite(ms, o, [Kind |-> "Consumed", DeliveryCount |-> 1])
Commit(ms, o) == MarkWrite(ms, o, [Kind |-> "Commited", DeliveryCount |-> 0])
Acknowledge(ms, o) ==
    MarkWrite(ms, o, [Kind |-> "Acknowledged",
                      DeliveryCount |-> GetMarkState(ms, o).DeliveryCount])

\* the largest offset for which a mark of at least `kind` exists, else zero
lastOffset(ms, kind) ==
    Max({0} \cup {o \in DOMAIN ms : KindRank(ms[o].Kind) >= KindRank(kind)})

-----------------------------------------------------------------------------
(* Partition log *)

\* Broker.Produce on the leader: batch-append, the offset is the new position
Append1(lg, channel, src, at) ==
    Append(lg, [channel |-> channel, src |-> src, ProducedAt |-> at])

\* FetchRangeFn as a stream: the next message of `channel` after position
\* `pos` with from <= offset <= to, or 0 when the stream has ended
FetchNext(lg, channel, from, to, pos) ==
    LET S == {o \in 1..Len(lg) :
                 /\ o > pos /\ o >= from /\ o <= to
                 /\ lg[o].channel = channel}
    IN IF S = {} THEN 0 ELSE Min(S)

\* the value of pr in the runs of the consumer group, where the produces of
\* clients and of the engine are appends to the one partition log
NoProduce == [leader |-> <<>>, logs |-> <<>>, stack |-> <<>>, calls |-> 0, last |-> <<>>]

-----------------------------------------------------------------------------
(* shouldRedeliver *)

\* no evaluation of shouldRedeliver on its own is under way
NoDecision == [m |-> [ProducedAt |-> 0], state |-> UnknownState,
               decided |-> FALSE, result |-> FALSE]

\* a variant in which a message is due at its deadline already
shouldRedeliverAtDeadline(m, state, t) ==
    CASE state.Kind = "NotAcknowledged" -> TRUE
      [] state.Kind \in {"Consumed", "Unknown"} ->
            LET dur == IF state.DeliveryCount > 0
                       THEN RedeliveryTimeout * state.DeliveryCount
                       ELSE RedeliveryTimeout
            IN m.ProducedAt + dur <= t
      [] state.Kind \in {"Acknowledged", "Commited"} -> FALSE
      [] OTHER -> FALSE

\* lines 335-352; t is time.Now().UTC()
shouldRedeliver(m, state, t) ==
    CASE state.Kind = "NotAcknowledged" -> TRUE
      [] state.Kind \in {"Consumed", "Unknown"} ->
            LET dur == IF state.DeliveryCount > 0
                       THEN RedeliveryTimeout * state.DeliveryCount
                       ELSE RedeliveryTimeout
            IN m.ProducedAt + dur < t
      [] state.Kind \in {"Acknowledged", "Commited"} -> FALSE
      [] OTHER -> FALSE


-----------------------------------------------------------------------------
(* Receivers and registration *)

NewReceiver(name) ==
    [name |-> name, msgClosed |-> FALSE, doneClosed |-> FALSE, got |-> <<>>]

\* positions of c.receivers whose receiver has this name
Named(name) == {k \in DOMAIN receivers : rcv[receivers[k]].name = name}

\* getReceiver: the first receiver of the list with this name, 0 for nil
getReceiver(name) ==
    IF Named(name) = {} THEN 0 ELSE receivers[Min(Named(name))]

\* removeConsumer: the list without its first receiver of this name
removeConsumer(name) == RemoveAt(receivers, Min(Named(name)))

NewLoop ==
    [pc |-> "start",            \* position of the dispatcher (the loop itself)
     lastCommited |-> 0, lastConsumed |-> 0,
     rpc |-> "none",            \* position of the recovery goroutine
     rpos |-> 0,                \* last offset its FetchRangeFn yielded
     lastMessage |-> 0, committed |-> FALSE, ri |-> 0,
     rm |-> 0, rstate |-> UnknownState,
     async |-> 0,               \* `go commit(...)` goroutines not yet run
     err |-> "",                \* the first error a phase returned to the errgroup
     tpos |-> 0,                \* last offset the tail's FetchRangeFn yielded
     tto |-> 0,                 \* the tail's upper end: the log as of its start
     ipos |-> 0,                \* part_002: last offset its iterator yielded
     i |-> 0, m |-> 0, r |-> 0,
     n |-> 0,                   \* len(c.receivers) as read at selectreceiver
     taken |-> <<>>,            \* history: the offsets taken from msgCh, in order
     lastSent |-> 0,            \* history: last offset a receiver accepted
     maxSent |-> 0]             \* history: highest offset a receiver accepted

IdleCaller == [pc |-> "idle", name |-> ""]

Running == crashed = ""

\* register, lines 58-61: the lookup under the read lock
RegisterLookup(c, name) ==
    /\ Running
    /\ callers[c].pc = "idle"
    /\ c <= lim.callers
    /\ IF getReceiver(name) # 0
       THEN callers' = callers
       ELSE callers' = [callers EXCEPT ![c] = [pc |-> "append", name |-> name]]
    /\ UNCHANGED <<now, log, marks, receivers, rcv, loops, crashed, lim, pr, rd>>

\* register, lines 63-77: append under the write lock, spawn on 0 -> 1
RegisterAppend(c) ==
    /\ Running
    /\ callers[c].pc = "append"
    /\ Len(rcv) < lim.receivers
    /\ Len(receivers) = 0 => Len(loops) < lim.loops
    /\ LET rid == Len(rcv) + 1 IN
        /\ rcv' = Append(rcv, NewReceiver(callers[c].name))
        /\ receivers' = Append(receivers, rid)
        /\ loops' = IF Len(receivers') = 1 THEN Append(loops, NewLoop) ELSE loops
        /\ callers' = [callers EXCEPT ![c] = IdleCaller]
    /\ UNCHANGED <<now, log, marks, crashed, lim, pr, rd>>

-----------------------------------------------------------------------------
(* Environment: producers, consumers, the clock *)

MainOffsets == {o \in 1..Len(log) : log[o].channel = MainChannel}
Delivered == UNION {Range(rcv[k].got) : k \in DOMAIN rcv}

ClientProduce ==
    /\ Running
    /\ Cardinality(MainOffsets) < lim.msgs
    /\ log' = Append1(log, MainChannel, Cardinality(MainOffsets) + 1, now)
    /\ UNCHANGED <<now, marks, receivers, rcv, callers, loops, crashed, lim, pr, rd>>

Tick ==
    /\ Running
    /\ now < lim.ticks * TickStep
    /\ now' = now + TickStep
    /\ UNCHANGED <<log, marks, receivers, rcv, callers, loops, crashed, lim, pr, rd>>

\* a consumer detaches by closing the doneCh that Consume returned to it
Detach(rid) ==
    /\ Running
    /\ ~rcv[rid].doneClosed
    /\ ~rcv[rid].msgClosed
    /\ rcv' = [rcv EXCEPT ![rid].doneClosed = TRUE]
    /\ UNCHANGED <<now, log, marks, receivers, callers, loops, crashed, lim, pr, rd>>

\* a consumer acknowledges a message that it was sent
ConsumerAck(o) ==
    /\ Running
    /\ o \in Delivered
    /\ GetMarkState(marks, o).Kind \notin {"Acknowledged", "Commited"}
    /\ marks' = Acknowledge(marks, o)
    /\ UNCHANGED <<now, log, receivers, rcv, callers, loops, crashed, lim, pr, rd>>

-----------------------------------------------------------------------------
(* consumeLoop: start, lines 90-104 *)

Alive(l) == loops[l].pc # "done"

\* the message the tail goroutine is sending or about to send on msgCh: the
\* next one of FetchRangeFn(from = lastConsumed, to = now) that is not the
\* starting point itself; 0 when its stream has ended
TailMessage(L) ==
    LET first == FetchNext(log, MainChannel, L.lastConsumed, L.tto, L.tpos)
    IN IF first # 0 /\ first = L.lastConsumed
       THEN FetchNext(log, MainChannel, L.lastConsumed, L.tto, first)
       ELSE first

\* the closer goroutine: group.Wait() has returned and msgCh is closed
Closed(L) == L.pc # "start" /\ L.rpc \in {"none", "done"} /\ TailMessage(L) = 0

\* the fields of a loop that nothing reads any more, back at their zero values
Settled(L) ==
    LET recOver == L.rpc \in {"none", "done"} /\ L.pc # "start"
        tailOver == TailMessage(L) = 0
        loopOver == L.pc = "done"
    IN [L EXCEPT
          !.rpos = IF recOver THEN 0 ELSE @,
          !.ri = IF recOver THEN 0 ELSE @,
          !.committed = IF recOver THEN FALSE ELSE @,
          !.lastMessage = IF recOver /\ L.async = 0 THEN 0 ELSE @,
          !.tpos = IF tailOver THEN 0 ELSE @,
          !.tto = IF tailOver THEN 0 ELSE @,
          !.ipos = IF loopOver THEN 0 ELSE @,
          !.i = IF loopOver THEN 0 ELSE @,
          !.m = IF loopOver THEN 0 ELSE @,
          !.r = IF loopOver THEN 0 ELSE @,
          !.n = IF loopOver THEN 0 ELSE @,
          !.err = IF loopOver THEN "" ELSE @,
          !.taken = IF loopOver THEN <<>> ELSE @,
          !.lastSent = IF loopOver THEN 0 ELSE @,
          !.maxSent = IF loopOver THEN 0 ELSE @,
          !.lastCommited =
              IF recOver /\ tailOver /\ loopOver /\ L.async = 0 THEN 0 ELSE @,
          !.lastConsumed =
              IF recOver /\ tailOver /\ loopOver /\ L.async = 0 THEN 0 ELSE @]

SetLoop(l, rec) == loops' = [loops EXCEPT ![l] = Settled(rec)]

\* either lastOffset lookup fails: return, the deferred teardown runs
BeginFail(l) ==
    /\ Running
    /\ loops[l].pc = "start"
    /\ SetLoop(l, [loops[l] EXCEPT !.pc = "teardown"])
    /\ UNCHANGED <<now, log, marks, receivers, rcv, callers, crashed, lim, pr, rd>>

\* both lookups succeed; the recovery goroutine is started iff they differ,
\* the tail goroutine and the closer always
Begin(l) ==
    /\ Running
    /\ loops[l].pc = "start"
    /\ LET lc == lastOffset(marks, "Commited")
           lo == lastOffset(marks, "Consumed")
       IN SetLoop(l, [loops[l] EXCEPT
              !.pc = "range",
              !.lastCommited = lc,
              !.lastConsumed = lo,
              !.rpc = IF lc # lo THEN "scan" ELSE "none",
              !.rpos = 0,
              !.tpos = 0,
              !.tto = Len(log)])
    /\ UNCHANGED <<now, log, marks, receivers, rcv, callers, crashed, lim, pr, rd>>

-----------------------------------------------------------------------------
(* consumeLoop: the recovery goroutine, lines 106-261 *)

\* the range of the recovery's FetchRangeRequest, lines 111-117
RecoveryFrom(L) == L.lastCommited

\* a variant in which the scan, like the tail, runs to the present end of the log
RecoveryToNow(L) == L.tto
RecoveryTo(L) == L.lastConsumed

\* the watermark step of the callback, lines 164-175: the marks after an
\* inline commit, the new `committed` flag, and whether `go commit` is started
AdvanceMarks(L, state) ==
    IF ~L.committed /\ L.lastMessage # 0 /\ state.Kind # "Acknowledged"
          /\ L.lastMessage # L.lastCommited
    THEN Commit(marks, L.lastMessage)
    ELSE marks

AdvanceCommitted(L, state) ==
    IF ~L.committed /\ L.lastMessage # 0 /\ state.Kind # "Acknowledged"
    THEN TRUE
    ELSE L.committed

AdvanceAsync(L, state, i) ==
    IF ~L.committed /\ L.lastMessage # 0 /\ state.Kind = "Acknowledged"
          /\ i % CommitPeriod = 0
    THEN L.async + 1
    ELSE L.async

\* one callback of FetchRangeFn(from = lastCommited, to = lastConsumed) up to
\* the send on msgCh, or the end of the stream and the commit of line 256
RecoveryNext(l) ==
    /\ Running
    /\ loops[l].rpc = "scan"
    /\ LET L == loops[l]
           m == FetchNext(log, MainChannel, RecoveryFrom(L), RecoveryTo(L), L.rpos)
           state == GetMarkState(marks, m)
       IN IF m = 0
          THEN /\ marks' = IF ~L.committed /\ L.lastMessage # 0
                           THEN Commit(marks, L.lastMessage)
                           ELSE marks
               /\ SetLoop(l, [L EXCEPT !.rpc = "done"])
          ELSE IF m = L.lastCommited
          THEN /\ marks' = marks
               /\ SetLoop(l, [L EXCEPT !.lastMessage = m, !.rpos = m])
          ELSE /\ marks' = AdvanceMarks(L, state)
               /\ SetLoop(l, [L EXCEPT
                      !.ri = L.ri + 1,
                      !.committed = AdvanceCommitted(L, state),
                      !.async = AdvanceAsync(L, state, L.ri + 1),
                      !.lastMessage = m,
                      !.rpos = m,
                      !.rm = IF shouldRedeliver(log[m], state, now) THEN m ELSE 0,
                      !.rstate = IF shouldRedeliver(log[m], state, now)
                                 THEN state ELSE UnknownState,
                      !.rpc = IF shouldRedeliver(log[m], state, now)
                              THEN "send" ELSE "scan"])
    /\ UNCHANGED <<now, log, receivers, rcv, callers, crashed, lim, pr, rd>>

\* the state written after a redelivery of a message whose state was not Unknown
Redelivered(state) ==
    [Kind |-> IF state.DeliveryCount + 1 >= MaxRedeliveryCount
              THEN "Acknowledged" ELSE state.Kind,
     DeliveryCount |-> state.DeliveryCount + 1]

\* whether the redelivered message is produced on the dead-letter channel
ToDeathLetter(state) == state.Kind # "Unknown"

\* after the send, lines 181-247: the mark update and the produces
RecoveryUpdate(l) ==
    /\ Running
    /\ loops[l].rpc = "update"
    /\ LET L == loops[l] IN
        /\ marks' = IF L.rstate.Kind = "Unknown"
                    THEN Mark(marks, L.rm, [Kind |-> "Consumed", DeliveryCount |-> 1])
                    ELSE MarkWrite(marks, L.rm, Redelivered(L.rstate))
        /\ log' = IF ToDeathLetter(L.rstate)
                  THEN Append1(log, DeathLetterChannel, log[L.rm].src,
                               log[L.rm].ProducedAt)
                  ELSE log
        /\ SetLoop(l, [L EXCEPT !.rpc = "scan", !.rm = 0, !.rstate = UnknownState])
    /\ UNCHANGED <<now, receivers, rcv, callers, crashed, lim, pr, rd>>

\* a goroutine started by `go commit(lastMessage.Offset)` runs: the closure
\* commits the lastMessage it finds then, not the offset it was given
AsyncCommit(l) ==
    /\ Running
    /\ loops[l].async > 0
    /\ marks' = Commit(marks, loops[l].lastMessage)
    /\ SetLoop(l, [loops[l] EXCEPT !.async = loops[l].async - 1])
    /\ UNCHANGED <<now, log, receivers, rcv, callers, crashed, lim, pr, rd>>

-----------------------------------------------------------------------------
(* consumeLoop: the dispatcher, lines 293-332, and the teardown, lines 81-89 *)

\* a variant that always takes the head of the list
PickFirst(i, n) == 1

\* the index of the receiver chosen for the i-th attempt (Go slices count from 0)
PickIndex(i, n) == (i % n) + 1

\* selectreceiver, lines 298-302, for message m: i++ and the read of
\* c.receivers[i%len(c.receivers)] under the read lock
SelectReceiver(l, L, m) ==
    IF Len(receivers) = 0
    THEN /\ crashed' = "integer divide by zero"
         /\ UNCHANGED loops
    ELSE /\ SetLoop(l, [L EXCEPT
                !.m = m,
                !.i = L.i + 1,
                !.r = receivers[PickIndex(L.i + 1, Len(receivers))],
                !.n = Len(receivers),
                !.pc = "select"])
         /\ UNCHANGED crashed

\* `for m = range msgCh` takes the message of the recovery goroutine, which
\* goes on to its mark update, and selects a receiver
ReceiveRecovery(l) ==
    /\ Running
    /\ loops[l].pc = "range"
    /\ loops[l].rpc = "send"
    /\ SelectReceiver(l, [loops[l] EXCEPT !.rpc = "update",
                                          !.taken = Append(@, loops[l].rm)],
                      loops[l].rm)
    /\ UNCHANGED <<now, log, marks, receivers, rcv, callers, lim, pr, rd>>

\* the same for the message of the tail goroutine, lines 273-282
ReceiveTail(l) ==
    /\ Running
    /\ loops[l].pc = "range"
    /\ TailMessage(loops[l]) # 0
    /\ SelectReceiver(l, [loops[l] EXCEPT !.tpos = TailMessage(loops[l]),
                                          !.taken = Append(@, TailMessage(loops[l]))],
                      TailMessage(loops[l]))
    /\ UNCHANGED <<now, log, marks, receivers, rcv, callers, lim, pr, rd>>

\* `goto selectreceiver`, line 315: the same message again
Reselect(l) ==
    /\ Running
    /\ loops[l].pc = "pick"
    /\ SelectReceiver(l, loops[l], loops[l].m)
    /\ UNCHANGED <<now, log, marks, receivers, rcv, callers, lim, pr, rd>>

\* whether the loop calls MarkConsumed when it leaves the range, line 321
MarksOnExit(L) == L.m # 0 /\ L.m # L.lastConsumed

\* lines 321-332
MarkOnExit(l, L) ==
    /\ marks' = IF MarksOnExit(L) THEN MarkConsumed(marks, L.m) ELSE marks
    /\ SetLoop(l, [L EXCEPT !.pc = "teardown"])

\* msgCh is closed and drained: the range ends, m keeps its last value
RangeEnd(l) ==
    /\ Running
    /\ loops[l].pc = "range"
    /\ Closed(loops[l])
    /\ MarkOnExit(l, loops[l])
    /\ UNCHANGED <<now, log, receivers, rcv, callers, crashed, lim, pr, rd>>

\* `break loop`, line 312
BreakLoop(l) ==
    /\ Running
    /\ loops[l].pc = "exit"
    /\ MarkOnExit(l, loops[l])
    /\ UNCHANGED <<now, log, receivers, rcv, callers, crashed, lim, pr, rd>>

\* select, case r.msgCh <- m: the consumer takes the message, or the channel
\* was closed by a teardown and the send panics
SendToReceiver(l) ==
    /\ Running
    /\ loops[l].pc = "select"
    /\ LET L == loops[l] IN
        IF rcv[L.r].msgClosed
        THEN /\ crashed' = "send on closed channel"
             /\ UNCHANGED <<rcv, loops>>
        ELSE /\ ~rcv[L.r].doneClosed
             /\ rcv' = [rcv EXCEPT ![L.r].got = Append(@, L.m)]
             /\ SetLoop(l, [L EXCEPT !.pc = "range", !.lastSent = L.m,
                                     !.maxSent = IF L.m > @ THEN L.m ELSE @])
             /\ UNCHANGED crashed
    /\ UNCHANGED <<now, log, marks, receivers, callers, lim, pr, rd>>

\* select, case <-r.doneCh: removeConsumer(r.name); when it finds no receiver
\* of that name the select is over and the range takes the next message
ReceiverDone(l) ==
    /\ Running
    /\ loops[l].pc = "select"
    /\ rcv[loops[l].r].doneClosed
    /\ LET name == rcv[loops[l].r].name IN
        IF Named(name) # {}
        THEN /\ receivers' = removeConsumer(name)
             /\ SetLoop(l, [loops[l] EXCEPT !.pc = "len"])
        ELSE /\ receivers' = receivers
             /\ SetLoop(l, [loops[l] EXCEPT !.pc = "range"])
    /\ UNCHANGED <<now, log, marks, rcv, callers, crashed, lim, pr, rd>>

\* lines 307-315: l := len(c.receivers); break loop or goto selectreceiver
AfterRemove(l) ==
    /\ Running
    /\ loops[l].pc = "len"
    /\ SetLoop(l, [loops[l] EXCEPT !.pc = IF Len(receivers) = 0 THEN "exit" ELSE "pick"])
    /\ UNCHANGED <<now, log, marks, receivers, rcv, callers, crashed, lim, pr, rd>>

\* the receivers of the list the deferred function closes before it either
\* ends or panics on a doneCh that is closed already
ClosedByTeardown ==
    LET bad == {k \in DOMAIN receivers : rcv[receivers[k]].doneClosed}
    IN IF bad = {} THEN DOMAIN receivers ELSE 1..Min(bad)

\* the deferred function, lines 81-89, under c.mu
Teardown(l) ==
    /\ Running
    /\ loops[l].pc = "teardown"
    /\ LET ids == {receivers[k] : k \in ClosedByTeardown}
           panics == \E k \in DOMAIN receivers : rcv[receivers[k]].doneClosed
       IN /\ rcv' = [k \in DOMAIN rcv |->
                        IF k \in ids
                        THEN [rcv[k] EXCEPT !.msgClosed = TRUE, !.doneClosed = TRUE]
                        ELSE rcv[k]]
          /\ IF panics
             THEN /\ crashed' = "close of closed channel"
                  /\ UNCHANGED <<receivers, loops>>
             ELSE /\ receivers' = <<>>
                  /\ SetLoop(l, [loops[l] EXCEPT !.pc = "done"])
                  /\ UNCHANGED crashed
    /\ UNCHANGED <<now, log, marks, callers, lim, pr, rd>>

-----------------------------------------------------------------------------
(* The system *)

Init ==
    /\ now = 0
    /\ log = <<>>
    /\ marks = <<>>
    /\ receivers = <<>>
    /\ rcv = <<>>
    /\ callers = [c \in Callers |-> IdleCaller]
    /\ loops = <<>>
    /\ crashed = ""
    /\ lim = [msgs |-> NumMsgs, callers |-> NumCallers, receivers |-> MaxReceivers,
              loops |-> MaxLoops, ticks |-> MaxTicks]
    /\ pr = NoProduce
    /\ rd = NoDecision

Next ==
    \/ \E c \in Callers, name \in Names : RegisterLookup(c, name)
    \/ \E c \in Callers : RegisterAppend(c)
    \/ ClientProduce
    \/ Tick
    \/ \E rid \in DOMAIN rcv : Detach(rid)
    \/ \E o \in MainOffsets : ConsumerAck(o)
    \/ \E l \in DOMAIN loops : BeginFail(l)
    \/ \E l \in DOMAIN loops : Begin(l)
    \/ \E l \in DOMAIN loops : RecoveryNext(l)
    \/ \E l \in DOMAIN loops : RecoveryUpdate(l)
    \/ \E l \in DOMAIN loops : AsyncCommit(l)
    \/ \E l \in DOMAIN loops : ReceiveRecovery(l)
    \/ \E l \in DOMAIN loops : ReceiveTail(l)
    \/ \E l \in DOMAIN loops : RangeEnd(l)
    \/ \E l \in DOMAIN loops : Reselect(l)
    \/ \E l \in DOMAIN loops : SendToReceiver(l)
    \/ \E l \in DOMAIN loops : ReceiverDone(l)
    \/ \E l \in DOMAIN loops : AfterRemove(l)
    \/ \E l \in DOMAIN loops : BreakLoop(l)
    \/ \E l \in DOMAIN loops : Teardown(l)

Spec == Init /\ [][Next]_vars

\* the run of one Consume caller under the Go scheduler: while some goroutine
\* can take a step, a step is taken
InitFair ==
    /\ now = 0
    /\ log = <<>>
    /\ marks = <<>>
    /\ receivers = <<>>
    /\ rcv = <<>>
    /\ callers = [c \in Callers |-> IdleCaller]
    /\ loops = <<>>
    /\ crashed = ""
    /\ lim = [msgs |-> NumMsgs, callers |-> 1, receivers |-> MaxReceivers,
              loops |-> MaxLoops, ticks |-> MaxTicks]
    /\ pr = NoProduce
    /\ rd = NoDecision

SpecFair == InitFair /\ [][Next]_vars /\ WF_vars(Next)

\* A longer run of one caller that attaches one consumer name again and again,
\* whose consumers neither detach nor acknowledge: every loop ends with the end
\* of its streams, so loops follow one another
InitDeep ==
    /\ now = 0
    /\ log = <<>>
    /\ marks = <<>>
    /\ receivers = <<>>
    /\ rcv = <<>>
    /\ callers = [c \in Callers |-> IdleCaller]
    /\ loops = <<>>
    /\ crashed = ""
    /\ lim = [msgs |-> NumMsgs, callers |-> 1, receivers |-> DeepLoops,
              loops |-> DeepLoops, ticks |-> DeepTicks]
    /\ pr = NoProduce
    /\ rd = NoDecision

NextDeep ==
    \/ \E c \in Callers : RegisterLookup(c, "c1")
    \/ \E c \in Callers : RegisterAppend(c)
    \/ ClientProduce
    \/ Tick
    \/ \E l \in DOMAIN loops : BeginFail(l)
    \/ \E l \in DOMAIN loops : Begin(l)
    \/ \E l \in DOMAIN loops : RecoveryNext(l)
    \/ \E l \in DOMAIN loops : RecoveryUpdate(l)
    \/ \E l \in DOMAIN loops : ReceiveRecovery(l)
    \/ \E l \in DOMAIN loops : ReceiveTail(l)
    \/ \E l \in DOMAIN loops : RangeEnd(l)
    \/ \E l \in DOMAIN loops : SendToReceiver(l)
    \/ \E l \in DOMAIN loops : Teardown(l)

SpecDeep == InitDeep /\ [][NextDeep]_vars

\* A run of the same kind with one message more and fewer loops: the
\* recovery window of a loop can hold a message between the committed and the
\* consumed offset
InitWindow ==
    /\ now = 0
    /\ log = <<>>
    /\ marks = <<>>
    /\ receivers = <<>>
    /\ rcv = <<>>
    /\ callers = [c \in Callers |-> IdleCaller]
    /\ loops = <<>>
    /\ crashed = ""
    /\ lim = [msgs |-> WindowMsgs, callers |-> 1, receivers |-> WindowLoops,
              loops |-> WindowLoops, ticks |-> MaxTicks]
    /\ pr = NoProduce
    /\ rd = NoDecision

SpecWindow == InitWindow /\ [][NextDeep]_vars

\* the recovery goroutine returns an error: of GetMarkStateMessage or of
\* FetchRangeFn during the scan (lines 147-159, 252-254), or of the mark update
\* after a send (lines 194-197, 207-210, 244-246). The errgroup keeps the first
\* error of the group for Wait
RecoveryFail(l) ==
    /\ Running
    /\ loops[l].rpc \in {"scan", "update"}
    /\ SetLoop(l, [loops[l] EXCEPT
           !.rpc = "done", !.rm = 0, !.rstate = UnknownState,
           !.err = IF @ = "" THEN "recovery" ELSE @])
    /\ UNCHANGED <<now, log, marks, receivers, rcv, callers, crashed, lim, pr, rd>>

\* the tail goroutine returns the error of its FetchRangeFn (line 273): its
\* stream is over
TailFail(l) ==
    /\ Running
    /\ loops[l].pc # "start"
    /\ TailMessage(loops[l]) # 0
    /\ SetLoop(l, [loops[l] EXCEPT
           !.tpos = loops[l].tto,
           !.err = IF @ = "" THEN "tail" ELSE @])
    /\ UNCHANGED <<now, log, marks, receivers, rcv, callers, crashed, lim, pr, rd>>

\* The run of one consumer name attaching again and again, with phases that
\* can fail
NextErrors ==
    \/ NextDeep
    \/ \E l \in DOMAIN loops : RecoveryFail(l)
    \/ \E l \in DOMAIN loops : TailFail(l)

SpecErrors == InitWindow /\ [][NextErrors]_vars

\* Runs in which no consumer detaches: the receiver list only grows while a
\* loop is alive
NextAttached ==
    \/ \E c \in Callers, name \in Names : RegisterLookup(c, name)
    \/ \E c \in Callers : RegisterAppend(c)
    \/ ClientProduce
    \/ Tick
    \/ \E o \in MainOffsets : ConsumerAck(o)
    \/ \E l \in DOMAIN loops : BeginFail(l)
    \/ \E l \in DOMAIN loops : Begin(l)
    \/ \E l \in DOMAIN loops : RecoveryNext(l)
    \/ \E l \in DOMAIN loops : RecoveryUpdate(l)
    \/ \E l \in DOMAIN loops : AsyncCommit(l)
    \/ \E l \in DOMAIN loops : ReceiveRecovery(l)
    \/ \E l \in DOMAIN loops : ReceiveTail(l)
    \/ \E l \in DOMAIN loops : RangeEnd(l)
    \/ \E l \in DOMAIN loops : SendToReceiver(l)
    \/ \E l \in DOMAIN loops : Teardown(l)

SpecAttached == Init /\ [][NextAttached]_vars

-----------------------------------------------------------------------------
(* The earlier consumeLoop (part_002): one iterator goroutine from the last
   committed offset, the dispatcher skips acknowledged messages, no marks are
   written; register, removeConsumer, getReceiver and the teardown are the
   same code *)

\* whether the group's mark of offset o is Acknowledged
isAcknoweldged(ms, o) == GetMarkState(ms, o).Kind = "Acknowledged"

\* the message the iterator goroutine is sending or about to send on msgCh:
\* the next one from Seek(from) on that is not `from` itself (from is kept in
\* lastCommited); 0 when it.Valid() fails there. No message of the log has an
\* offset after the present time
LegacyMessage(L) ==
    LET after == {o \in MainOffsets : o > L.ipos /\ o >= L.lastCommited
                                      /\ o # L.lastCommited}
    IN IF after = {} THEN 0 ELSE Min(after)

\* LastOffset fails: return; the closing of the receivers is not reached
LegacyBeginFail(l) ==
    /\ Running
    /\ loops[l].pc = "start"
    /\ SetLoop(l, [loops[l] EXCEPT !.pc = "done"])
    /\ UNCHANGED <<now, log, marks, receivers, rcv, callers, crashed, lim, pr, rd>>

\* LastOffset succeeds; the iterator goroutine and the closer are started
LegacyBegin(l) ==
    /\ Running
    /\ loops[l].pc = "start"
    /\ SetLoop(l, [loops[l] EXCEPT
           !.pc = "range",
           !.lastCommited = lastOffset(marks, "Commited"),
           !.ipos = 0])
    /\ UNCHANGED <<now, log, marks, receivers, rcv, callers, crashed, lim, pr, rd>>

\* selectreceiver: the read of c.receivers[i%len(c.receivers)], i as it is
LegacySelectReceiver(l, L, m) ==
    IF Len(receivers) = 0
    THEN /\ crashed' = "integer divide by zero"
         /\ UNCHANGED loops
    ELSE /\ SetLoop(l, [L EXCEPT
                !.m = m,
                !.r = receivers[PickIndex(L.i, Len(receivers))],
                !.n = Len(receivers),
                !.pc = "select"])
         /\ UNCHANGED crashed

\* `for m := range msgCh`: an acknowledged message is skipped, for any other
\* a receiver is selected
LegacyReceive(l) ==
    /\ Running
    /\ loops[l].pc = "range"
    /\ LegacyMessage(loops[l]) # 0
    /\ LET m == LegacyMessage(loops[l])
           L == [loops[l] EXCEPT !.ipos = m, !.taken = Append(@, m)]
       IN IF isAcknoweldged(marks, m)
          THEN SetLoop(l, L) /\ UNCHANGED crashed
          ELSE LegacySelectReceiver(l, L, m)
    /\ UNCHANGED <<now, log, marks, receivers, rcv, callers, lim, pr, rd>>

\* `goto selectreceiver`: the same message, the same i
LegacyReselect(l) ==
    /\ Running
    /\ loops[l].pc = "pick"
    /\ LegacySelectReceiver(l, loops[l], loops[l].m)
    /\ UNCHANGED <<now, log, marks, receivers, rcv, callers, lim, pr, rd>>

\* select, case r.msgCh <- m, then i++
LegacySend(l) ==
    /\ Running
    /\ loops[l].pc = "select"
    /\ LET L == loops[l] IN
        IF rcv[L.r].msgClosed
        THEN /\ crashed' = "send on closed channel"
             /\ UNCHANGED <<rcv, loops>>
        ELSE /\ ~rcv[L.r].doneClosed
             /\ rcv' = [rcv EXCEPT ![L.r].got = Append(@, L.m)]
             /\ SetLoop(l, [L EXCEPT !.pc = "range", !.i = L.i + 1,
                                     !.lastSent = L.m,
                                     !.maxSent = IF L.m > @ THEN L.m ELSE @])
             /\ UNCHANGED crashed
    /\ UNCHANGED <<now, log, marks, receivers, callers, lim, pr, rd>>

\* select, case <-r.doneCh: removeConsumer(r.name); when it finds no receiver
\* of that name the select is over: i++ and the next message
LegacyReceiverDone(l) ==
    /\ Running
    /\ loops[l].pc = "select"
    /\ rcv[loops[l].r].doneClosed
    /\ LET name == rcv[loops[l].r].name IN
        IF Named(name) # {}
        THEN /\ receivers' = removeConsumer(name)
             /\ SetLoop(l, [loops[l] EXCEPT !.pc = "len"])
        ELSE /\ receivers' = receivers
             /\ SetLoop(l, [loops[l] EXCEPT !.pc = "range", !.i = loops[l].i + 1])
    /\ UNCHANGED <<now, log, marks, rcv, callers, crashed, lim, pr, rd>>

\* l := len(c.receivers); break loop, which leads to the teardown, or goto
LegacyAfterRemove(l) ==
    /\ Running
    /\ loops[l].pc = "len"
    /\ SetLoop(l, [loops[l] EXCEPT
           !.pc = IF Len(receivers) = 0 THEN "teardown" ELSE "pick"])
    /\ UNCHANGED <<now, log, marks, receivers, rcv, callers, crashed, lim, pr, rd>>

\* the iterator has ended, msgCh is closed and drained: the range ends
LegacyRangeEnd(l) ==
    /\ Running
    /\ loops[l].pc = "range"
    /\ LegacyMessage(loops[l]) = 0
    /\ SetLoop(l, [loops[l] EXCEPT !.pc = "teardown"])
    /\ UNCHANGED <<now, log, marks, receivers, rcv, callers, crashed, lim, pr, rd>>

NextLegacy ==
    \/ \E c \in Callers, name \in Names : RegisterLookup(c, name)
    \/ \E c \in Callers : RegisterAppend(c)
    \/ ClientProduce
    \/ \E rid \in DOMAIN rcv : Detach(rid)
    \/ \E o \in MainOffsets : ConsumerAck(o)
    \/ \E l \in DOMAIN loops : LegacyBeginFail(l)
    \/ \E l \in DOMAIN loops : LegacyBegin(l)
    \/ \E l \in DOMAIN loops : LegacyReceive(l)
    \/ \E l \in DOMAIN loops : LegacyReselect(l)
    \/ \E l \in DOMAIN loops : LegacySend(l)
    \/ \E l \in DOMAIN loops : LegacyReceiverDone(l)
    \/ \E l \in DOMAIN loops : LegacyAfterRemove(l)
    \/ \E l \in DOMAIN loops : LegacyRangeEnd(l)
    \/ \E l \in DOMAIN loops : Teardown(l)

SpecLegacy == Init /\ [][NextLegacy]_vars

-----------------------------------------------------------------------------
(* Broker.Produce (part_000) on a cluster of nodes: pr.leader is the leader of
   each partition ("" for none), pr.logs the local log of each partition on
   each node, pr.stack the Produce calls in progress, the forwarded call on
   top of the call that forwards, pr.last the call that returned last *)

Nodes == {"n1", "n2"}
Topics == {"t1"}
TopicNames == {"t1", "tx"}
PartitionNames == {"", "p1", "p2", "px"}
Batches == {<<>>, <<"a">>, <<"a", "b">>, <<"b", "a">>}

\* t.GetPartition over the partitions of a topic
PartitionsOf(topic) == IF topic \in Topics THEN {"p1", "p2"} ELSE {}
AllPartitions == UNION {PartitionsOf(t) : t \in Topics}

\* b.getTopic: "" stands for nil
getTopic(topic) == IF topic \in Topics THEN topic ELSE ""

NoResponse == [err |-> "", Offsets |-> <<>>]
Frame(node, req) == [node |-> node, req |-> req, done |-> FALSE, res |-> NoResponse]
Failed(f, err) == [f EXCEPT !.done = TRUE, !.res = [err |-> err, Offsets |-> <<>>]]

\* a variant that looks the topic up before it looks at the batch
ValidationErrorTopicFirst(req) ==
    IF getTopic(req.Topic) = "" THEN "ErrTopicNotFound"
    ELSE IF Len(req.Messages) = 0 THEN "ErrNoMessageToProduce"
    ELSE IF req.Partition # "" /\ req.Partition \notin PartitionsOf(req.Topic)
    THEN "unknown partition"
    ELSE ""

\* lines 25-38: the error the request is refused with before a partition is
\* resolved, "" when it is not
ValidationError(req) ==
    IF Len(req.Messages) = 0 THEN "ErrNoMessageToProduce"
    ELSE IF getTopic(req.Topic) = "" THEN "ErrTopicNotFound"
    ELSE IF req.Partition # "" /\ req.Partition \notin PartitionsOf(req.Topic)
    THEN "unknown partition"
    ELSE ""

\* lines 34-41: the partition named, or any one of the topic (ChooseRandomPartition)
Candidates(req) ==
    IF req.Partition # "" THEN {req.Partition} ELSE PartitionsOf(req.Topic)

\* a variant that takes every node for the leader
AlwaysLeader(b, p) == TRUE

\* line 48, negated: whether node b is the leader of partition p
IsLeader(b, p) == pr.leader[p] = b

\* p.BatchPutMessages: the batch at the end of the log, each message with the
\* offset it was given
BatchPutMessages(lg, msgs) ==
    lg \o [k \in 1..Len(msgs) |-> [id |-> msgs[k], Offset |-> Len(lg) + k]]

\* lines 57-59: the offsets of the request's messages, in their order
OffsetsOf(lg, msgs) == [k \in 1..Len(msgs) |-> Len(lg) + k]

TopFrame == pr.stack[Len(pr.stack)]
SetTop(f) == [pr.stack EXCEPT ![Len(pr.stack)] = f]

consumerVars == <<now, log, marks, receivers, rcv, callers, loops, crashed, lim, rd>>

\* a client calls Produce on node b
ProduceCall(b, req) ==
    /\ pr.stack = <<>>
    /\ pr.calls < MaxCalls
    /\ pr' = [pr EXCEPT !.stack = <<Frame(b, req)>>, !.calls = @ + 1, !.last = <<>>]
    /\ UNCHANGED consumerVars

\* Produce on the node of the top call, lines 19-62, up to its return or to
\* the call of leader.Produce; p is the partition resolved, ok whether
\* BatchPutMessages succeeds
ProduceRun(p, ok) ==
    /\ pr.stack # <<>>
    /\ ~TopFrame.done
    /\ LET f == TopFrame
           b == f.node
           req == f.req
       IN IF ValidationError(req) # ""
          THEN pr' = [pr EXCEPT !.stack = SetTop(Failed(f, ValidationError(req)))]
          ELSE /\ p \in Candidates(req)
               /\ IF pr.leader[p] = ""
                  THEN pr' = [pr EXCEPT !.stack = SetTop(Failed(f, "ErrNoLeaderFound"))]
                  ELSE IF ~IsLeader(b, p)
                  THEN /\ Len(pr.stack) <= MaxHops
                       /\ pr' = [pr EXCEPT
                              !.stack = Append(@, Frame(pr.leader[p], req))]
                  ELSE IF ~ok
                  THEN pr' = [pr EXCEPT !.stack = SetTop(Failed(f, "storage"))]
                  ELSE pr' = [pr EXCEPT
                          !.logs[b][p] = BatchPutMessages(@, req.Messages),
                          !.stack = SetTop([f EXCEPT
                              !.done = TRUE,
                              !.res = [err |-> "",
                                       Offsets |-> OffsetsOf(pr.logs[b][p],
                                                             req.Messages)]])]
    /\ UNCHANGED consumerVars

\* line 49: `return leader.Produce(ctx, req)`, the forwarded call has returned
ProduceReturn ==
    /\ Len(pr.stack) > 1
    /\ TopFrame.done
    /\ pr' = [pr EXCEPT
           !.stack = [SubSeq(@, 1, Len(@) - 1) EXCEPT
                         ![Len(pr.stack) - 1].done = TRUE,
                         ![Len(pr.stack) - 1].res = TopFrame.res]]
    /\ UNCHANGED consumerVars

\* the client has its response
ProduceDone ==
    /\ Len(pr.stack) = 1
    /\ TopFrame.done
    /\ pr' = [pr EXCEPT !.stack = <<>>, !.last = TopFrame]
    /\ UNCHANGED consumerVars

InitProduce ==
    /\ now = 0
    /\ log = <<>>
    /\ marks = <<>>
    /\ receivers = <<>>
    /\ rcv = <<>>
    /\ callers = [c \in Callers |-> IdleCaller]
    /\ loops = <<>>
    /\ crashed = ""
    /\ lim = [msgs |-> NumMsgs, callers |-> NumCallers, receivers |-> MaxReceivers,
              loops |-> MaxLoops, ticks |-> MaxTicks]
    /\ rd = NoDecision
    /\ \E ld \in [AllPartitions -> Nodes \cup {""}] :
          pr = [leader |-> ld,
                logs |-> [n \in Nodes |-> [q \in AllPartitions |-> <<>>]],
                stack |-> <<>>, calls |-> 0, last |-> <<>>]

NextProduce ==
    \/ \E b \in Nodes, t \in TopicNames, q \in PartitionNames, msgs \in Batches :
          ProduceCall(b, [Topic |-> t, Messages |-> msgs, Partition |-> q])
    \/ \E p \in AllPartitions, ok \in BOOLEAN : ProduceRun(p, ok)
    \/ ProduceReturn
    \/ ProduceDone

SpecProduce == InitProduce /\ [][NextProduce]_vars

-----------------------------------------------------------------------------
(* shouldRedeliver on its own: every mark kind, with a kind the switch does *)
(* not name, every DeliveryCount, ProducedAt and time of the ranges below   *)

AnyKind == Kinds \cup {"Invalid"}
Counts == 0..MaxCount
ProducedTimes == 0..MaxProducedAt
Times == 0..(MaxProducedAt + RedeliveryTimeout * MaxCount + 1)

\* the recovery scan's call, line 177: c.shouldRedeliver(m, state)
Decide ==
    /\ ~rd.decided
    /\ rd' = [rd EXCEPT !.decided = TRUE,
                        !.result = shouldRedeliver(rd.m, rd.state, now)]
    /\ UNCHANGED <<now, log, marks, receivers, rcv, callers, loops, crashed, lim, pr>>

InitRedeliver ==
    /\ now \in Times
    /\ log = <<>>
    /\ marks = <<>>
    /\ receivers = <<>>
    /\ rcv = <<>>
    /\ callers = [c \in Callers |-> IdleCaller]
    /\ loops = <<>>
    /\ crashed = ""
    /\ lim = [msgs |-> NumMsgs, callers |-> NumCallers, receivers |-> MaxReceivers,
              loops |-> MaxLoops, ticks |-> MaxTicks]
    /\ pr = NoProduce
    /\ \E k \in AnyKind, d \in Counts, p \in ProducedTimes :
          rd = [m |-> [ProducedAt |-> p],
                state |-> [Kind |-> k, DeliveryCount |-> d],
                decided |-> FALSE, result |-> FALSE]

NextRedeliver == Decide

SpecRedeliver == InitRedeliver /\ [][NextRedeliver]_vars

-----------------------------------------------------------------------------
(* Properties *)

AliveLoops == {l \in DOMAIN loops : Alive(l)}
Last(q) == q[Len(q)]

\* the receivers that were sent a message in this step
SentTo == {k \in DOMAIN rcv : Len(rcv'[k].got) > Len(rcv[k].got)}

\* C1: at most one consumeLoop of the group is alive (started and not yet
\* through its teardown) at any instant
C1_AtMostOneLoop == Cardinality(AliveLoops) <= 1

\* C2: a message whose mark state is Acknowledged is not sent to a receiver
\* of the group, by whichever phase put it on msgCh
C2_NoSendOfAcknowledged ==
    [][\A k \in SentTo :
          GetMarkState(marks, Last(rcv'[k].got)).Kind # "Acknowledged"]_vars


\* whether the consumers still owe the acknowledgement of offset o
Unacked(ms, o) == GetMarkState(ms, o).Kind \notin {"Acknowledged", "Commited"}

\* C3: a message that was sent to a receiver and not acknowledged, with fewer
\* than MaxRedeliveryCount deliveries, stays in the window the recovery scan
\* of a later run reads: no step puts the committed offset at or past it
C3_StaysRedeliverable ==
    [][\A o \in Delivered :
          (/\ Unacked(marks, o)
           /\ GetMarkState(marks, o).DeliveryCount + 1 < MaxRedeliveryCount)
          => (\/ GetMarkState(marks', o).Kind = "Acknowledged"
              \/ lastOffset(marks', "Commited") < o)]_vars

\* the offsets a step commits
CommittedNow ==
    {o \in DOMAIN marks' :
        marks'[o].Kind = "Commited" /\ GetMarkState(marks, o).Kind # "Commited"}

\* C4: every commit is for an offset such that every message of the channel
\* up to it is Acknowledged: the committed offset never passes a message that
\* is not
C4_CommitsOnlyAcknowledged ==
    [][\A o \in CommittedNow : \A p \in MainOffsets : p <= o => ~Unacked(marks, p)]_vars

\* how many times the message of offset o is on the dead-letter channel
DeadLetters(o) ==
    Cardinality({p \in 1..Len(log) :
                    log[p].channel = DeathLetterChannel /\ log[p].src = log[o].src})

\* C5: a message whose DeliveryCount has reached MaxRedeliveryCount is on the
\* dead-letter channel exactly once
C5_DeadLetteredOnce ==
    \A o \in MainOffsets :
        GetMarkState(marks, o).DeliveryCount >= MaxRedeliveryCount
            => DeadLetters(o) = 1

\* C6: the recovery scan produces on the dead-letter channel only in the mark
\* update whose incremented DeliveryCount is at least MaxRedeliveryCount
C6_DeadLetterOnlyAtMax ==
    [][\A l \in DOMAIN loops :
          (loops[l].rpc = "update" /\ loops'[l].rpc # "update" /\ Len(log') > Len(log))
          => loops[l].rstate.DeliveryCount + 1 >= MaxRedeliveryCount]_vars

\* C7: the offset the loop marks Consumed when it exits is that of the last
\* message a receiver accepted, and the highest one accepted in the run
C7_MarksLastSent ==
    \A l \in DOMAIN loops :
        (loops[l].pc = "teardown" /\ MarksOnExit(loops[l]))
            => (loops[l].m = loops[l].lastSent /\ loops[l].m = loops[l].maxSent)

\* C10: Consume is idempotent per name: the list never holds two receivers
\* of one name
C10_OneReceiverPerName == \A name \in Names : Cardinality(Named(name)) <= 1


Listed == Range(receivers)

\* C9: when a consume loop exits, by whichever way, every receiver that is
\* still in the list has its msgCh and its doneCh closed and the list is then
\* empty
C9_ExitClosesReceivers ==
    [][\A l \in DOMAIN loops :
          (loops[l].pc # "done" /\ loops'[l].pc = "done")
          => (/\ receivers' = <<>>
              /\ \A k \in Listed : rcv'[k].msgClosed /\ rcv'[k].doneClosed)]_vars


\* C11: once the dispatcher has removed a receiver whose consumer signalled
\* doneCh, no message is sent to it any more (every send is to a receiver of
\* the list whose doneCh is open), and when the last consumer has left and no
\* loop is alive the msgCh of that receiver has been closed
C11_DetachedReceiver ==
    /\ [][\A k \in SentTo : k \in Listed /\ ~rcv[k].doneClosed]_vars
    /\ [](AliveLoops = {} =>
             \A k \in DOMAIN rcv : rcv[k].doneClosed => rcv[k].msgClosed)


\* the position of receiver k in the list, 0 when it is not there
PositionOf(k) ==
    IF k \in Listed THEN Min({p \in DOMAIN receivers : receivers[p] = k}) ELSE 0

\* loop l takes the next message from msgCh and selects its receiver
Picks(l) == loops[l].pc = "range" /\ loops'[l].pc = "select"

\* C12: while the receiver list stays as it is and nobody detaches, messages go
\* round the list: each message is for the receiver after the one of the
\* message before, so the receivers' counts differ by at most one (two
\* receivers get five each of ten)
C12_RoundRobin ==
    [][\A l \in DOMAIN loops :
          (Picks(l) /\ loops[l].i > 0 /\ loops[l].n = Len(receivers))
          => PositionOf(loops'[l].r) = (PositionOf(loops[l].r) % Len(receivers)) + 1]_vars

\* two receivers are attached and a loop has sent each of them one of two
\* consecutive messages
C12_Witness ==
    /\ Len(receivers) = 2
    /\ \E l \in DOMAIN loops :
          /\ loops[l].pc = "range"
          /\ loops[l].i = 2
          /\ loops[l].n = 2
          /\ \A k \in Listed : Len(rcv[k].got) = 1


RECURSIVE IsSubseq(_, _)
\* whether sequence a is b with some of its entries left out
IsSubseq(a, b) ==
    IF a = <<>> THEN TRUE
    ELSE IF b = <<>> THEN FALSE
    ELSE IF Head(a) = Head(b) THEN IsSubseq(Tail(a), Tail(b))
    ELSE IsSubseq(a, Tail(b))

StrictlyIncreasing(q) == \A x, y \in DOMAIN q : x < y => q[x] < q[y]

\* C13: what a receiver of the list has received is, in order, part of what the
\* loop that serves it took from msgCh; and as long as no loop has run a
\* recovery phase the offsets a receiver has received are strictly increasing
C13_ReceiverOrder ==
    /\ \A k \in Listed :
          \E l \in AliveLoops : IsSubseq(rcv[k].got, loops[l].taken)
    /\ (\A l \in DOMAIN loops : loops[l].rpc = "none")
          => \A k \in DOMAIN rcv : StrictlyIncreasing(rcv[k].got)


\* the offsets whose mark a step writes, leaving commits aside
MarkedNow ==
    {o \in DOMAIN marks' :
        marks'[o] # GetMarkState(marks, o) /\ marks'[o].Kind # "Commited"}

\* C14: no mark write of the engine lowers the DeliveryCount recorded for an
\* offset: the recovery scan writes 1 over Unknown and the count plus one
\* otherwise, and the Consumed mark on exit leaves a recorded count as it is
C14_CountNeverDecreases ==
    [][\A o \in MarkedNow :
          marks'[o].DeliveryCount >= GetMarkState(marks, o).DeliveryCount]_vars


\* a step in which the top Produce call runs on its node
Runs == pr.stack # <<>> /\ ~TopFrame.done /\ pr' # pr

\* that call returns err, with no log written and no call forwarded
Rejected(err) ==
    /\ pr'.logs = pr.logs
    /\ Len(pr'.stack) = Len(pr.stack)
    /\ pr'.stack[Len(pr.stack)].done
    /\ pr'.stack[Len(pr.stack)].res = [err |-> err, Offsets |-> <<>>]

\* C15: Produce refuses, without appending and without forwarding, an empty
\* batch with ErrNoMessageToProduce (whatever the topic), else an unknown topic
\* with ErrTopicNotFound, else a named partition the topic has not with the
\* unknown-partition error, else a partition without leader with
\* ErrNoLeaderFound
C15_ProduceRejects ==
    [][Runs =>
         LET req == TopFrame.req IN
         /\ Len(req.Messages) = 0 => Rejected("ErrNoMessageToProduce")
         /\ (Len(req.Messages) > 0 /\ req.Topic \notin Topics)
               => Rejected("ErrTopicNotFound")
         /\ (Len(req.Messages) > 0 /\ req.Topic \in Topics /\ req.Partition # ""
                /\ req.Partition \notin PartitionsOf(req.Topic))
               => Rejected("unknown partition")
         /\ (ValidationError(req) = "" /\ \A q \in Candidates(req) : pr.leader[q] = "")
               => Rejected("ErrNoLeaderFound")]_vars

\* an empty batch for an unknown topic was refused as an empty batch
C15_Witness ==
    /\ pr.last # <<>>
    /\ pr.last.req.Messages = <<>>
    /\ pr.last.req.Topic \notin Topics
    /\ pr.last.res.err = "ErrNoMessageToProduce"
    /\ \A n \in Nodes, q \in AllPartitions : pr.logs[n][q] = <<>>


\* the top call on node b forwards the whole request to the leader of p and
\* writes no log
ForwardedTo(b, req, p) ==
    /\ pr.leader[p] \notin {"", b}
    /\ pr'.logs = pr.logs
    /\ pr'.stack = Append(pr.stack, Frame(pr.leader[p], req))

\* the top call on node b, the leader of p, appends the batch to its log of p
\* and to no other log, and answers one offset per message, in their order
AppendedAt(b, req, p) ==
    /\ pr.leader[p] = b
    /\ pr'.logs = [pr.logs EXCEPT ![b][p] = pr'.logs[b][p]]
    /\ Len(pr'.logs[b][p]) = Len(pr.logs[b][p]) + Len(req.Messages)
    /\ LET res == pr'.stack[Len(pr.stack)].res IN
          /\ pr'.stack[Len(pr.stack)].done
          /\ res.err = ""
          /\ Len(res.Offsets) = Len(req.Messages)
          /\ \A k \in DOMAIN req.Messages :
                /\ res.Offsets[k] > Len(pr.logs[b][p])
                /\ pr'.logs[b][p][res.Offsets[k]] =
                       [id |-> req.Messages[k], Offset |-> res.Offsets[k]]

\* C16: a Produce call that passes the checks, on a node that is not the
\* leader of the partition it resolved, forwards the request as it is and
\* writes nothing; the response of the forwarded call is returned as it is;
\* only on the leader is the batch appended, with one offset per message in
\* the order of the request; so no node holds messages of a partition it does
\* not lead
C16_ForwardsToLeader ==
    /\ [][Runs /\ ValidationError(TopFrame.req) = "" =>
            \E p \in Candidates(TopFrame.req) :
                \/ pr.leader[p] = "" /\ Rejected("ErrNoLeaderFound")
                \/ ForwardedTo(TopFrame.node, TopFrame.req, p)
                \/ AppendedAt(TopFrame.node, TopFrame.req, p)
                \/ pr.leader[p] = TopFrame.node /\ Rejected("storage")]_vars
    /\ [][(Len(pr.stack) > 1 /\ TopFrame.done /\ pr' # pr) =>
            /\ pr'.logs = pr.logs
            /\ Len(pr'.stack) = Len(pr.stack) - 1
            /\ pr'.stack[Len(pr'.stack)].done
            /\ pr'.stack[Len(pr'.stack)].res = TopFrame.res]_vars
    /\ [](\A n \in Nodes, q \in AllPartitions :
             pr.logs[n][q] # <<>> => pr.leader[q] = n)

\* a call on a node that does not lead the partition named has returned the
\* offsets of a batch of two that is now in the leader's log only
C16_Witness ==
    /\ pr.last # <<>>
    /\ pr.last.req.Partition \in AllPartitions
    /\ pr.leader[pr.last.req.Partition] \notin {"", pr.last.node}
    /\ Len(pr.last.req.Messages) = 2
    /\ pr.last.res = [err |-> "", Offsets |-> <<1, 2>>]
    /\ pr.logs[pr.last.node][pr.last.req.Partition] = <<>>
    /\ Len(pr.logs[pr.leader[pr.last.req.Partition]][pr.last.req.Partition]) = 2


\* C17: once a phase of a loop has returned an error, the loop takes no
\* further message from msgCh: the other phase is cancelled and nothing more
\* is dispatched
C17_FirstErrorCancels ==
    [][\A l \in DOMAIN loops :
          loops[l].err # "" => Len(loops'[l].taken) <= Len(loops[l].taken)]_vars


\* C18: when the dispatcher retries a message after it removed a receiver
\* whose doneCh fired (the loop is at `goto selectreceiver` and selects
\* again), it selects for the same message and the round-robin index i is
\* not incremented again
C18_RetryKeepsIndex ==
    [][\A l \in DOMAIN loops :
          (loops[l].pc = "pick" /\ l \in DOMAIN loops' /\ loops'[l].pc = "select")
              => /\ loops'[l].m = loops[l].m
                 /\ loops'[l].i = loops[l].i]_vars


\* the deadline of a message in flight: ProducedAt + RedeliveryTimeout * max(1, DeliveryCount)
Deadline(m, state) ==
    m.ProducedAt + RedeliveryTimeout * Max({1, state.DeliveryCount})

C20_NoDoubleClose == crashed # "close of closed channel"


\* C21: whenever the dispatcher evaluates receivers[i % len(receivers)] the
\* receiver list is non-empty, whatever register, removeConsumer and the
\* teardown of a loop of the group have done in between: the process never
\* panics with a division by zero
C21_ListNonEmptyAtIndex == crashed # "integer divide by zero"


\* C22: after the dispatcher has left the range by `break loop` (the last
\* receiver detached), the recovery and the tail goroutine of the loop
\* eventually return, group.Wait() returns in the closer and msgCh is closed
\* (unless the process has panicked in between)
C22_TasksTerminate ==
    \A l \in 1..MaxLoops :
        (l \in DOMAIN loops /\ loops[l].pc = "exit")
            ~> ((l \in DOMAIN loops /\ Closed(loops[l])) \/ crashed # "")

=============================================================================
